---- MODULE Spec2Model ----
(***************************************************************************)
(* Model of ask_hr_ai_agent_adk/doc_generator.py: the filename sanitizer,  *)
(* the plain and templated document builders and the in-memory document    *)
(* cache.                                                                  *)
(*                                                                         *)
(* A Python str is a sequence of one-character strings.  None and "" are   *)
(* both falsy and are used by the code only through `x or default` and     *)
(* `filename is not None and " - " in filename`, where they behave alike,  *)
(* so an absent str argument is the empty sequence.                        *)
(***************************************************************************)
EXTENDS Integers, Sequences, FiniteSets, TLC

VARIABLES
    cache,        \* _document_cache: doc_key -> [bytes |-> BytesIO, filename |-> str]
    has_docxtpl,  \* _HAS_DOXCTPL, resolved once at import
    arg,          \* inputs of the call under study (pure-function specifications)
    ret           \* outcome of the most recent call into the module

vars == <<cache, has_docxtpl, arg, ret>>

----------------------------------------------------------------------------
(* Bounds *)

MaxLen == 4          \* longest content drawn for generate_docx
MaxTitleLen == 2     \* longest title drawn for generate_docx
MaxNameLen == 4      \* longest name drawn for _sanitize_filename
MaxTime == 1         \* datetime.now() reads a tick in 0..MaxTime
TicksPerSec == 2     \* clock ticks in one second

----------------------------------------------------------------------------
(* Strings *)

RECURSIVE StrUpTo(_, _)
StrUpTo(alphabet, n) ==
    IF n = 0 THEN {<<>>}
    ELSE LET shorter == StrUpTo(alphabet, n - 1)
         IN  shorter \cup {Append(s, c) : s \in shorter, c \in alphabet}

\* str.strip() / str.splitlines() character classes, restricted to the
\* characters the model draws (Python also counts \v, \f, \x1c-\x1e, \x85 ...).
IsSpace(c) == c \in {" ", "\t", "\n", "\r"}
IsLineBreak(c) == c \in {"\n", "\r"}

RECURSIVE LStrip(_)
LStrip(s) == IF s = <<>> \/ ~IsSpace(Head(s)) THEN s ELSE LStrip(Tail(s))

RECURSIVE RStrip(_)
RStrip(s) ==
    IF s = <<>> \/ ~IsSpace(s[Len(s)]) THEN s ELSE RStrip(SubSeq(s, 1, Len(s) - 1))

Strip(s) == RStrip(LStrip(s))

Replace(s, old, new) == [i \in DOMAIN s |-> IF s[i] = old THEN new ELSE s[i]]

LowerChar(c) ==
    CASE c = "A" -> "a"
      [] c = "D" -> "d"
      [] c = "T" -> "t"
      [] OTHER   -> c

Lower(s) == [i \in DOMAIN s |-> LowerChar(s[i])]

EndsWith(s, suffix) ==
    /\ Len(s) >= Len(suffix)
    /\ SubSeq(s, Len(s) - Len(suffix) + 1, Len(s)) = suffix

Contains(s, sub) ==
    \E i \in 1..(Len(s) - Len(sub) + 1) : SubSeq(s, i, i + Len(sub) - 1) = sub

Digit(d) ==
    CASE d = 0 -> "0" [] d = 1 -> "1" [] d = 2 -> "2" [] d = 3 -> "3" [] d = 4 -> "4"
      [] d = 5 -> "5" [] d = 6 -> "6" [] d = 7 -> "7" [] d = 8 -> "8" [] d = 9 -> "9"

RECURSIVE IntStr(_)
IntStr(n) == IF n < 10 THEN <<Digit(n)>> ELSE IntStr(n \div 10) \o <<Digit(n % 10)>>

\* RECURSIVE helper of splitlines: i is the next index, cur the line being built.
\* "\r\n" is one line break; a trailing line break opens no further line.
RECURSIVE SplitFrom(_, _, _)
SplitFrom(s, i, cur) ==
    IF i > Len(s) THEN (IF cur = <<>> THEN <<>> ELSE <<cur>>)
    ELSE IF s[i] = "\r" /\ i < Len(s) /\ s[i + 1] = "\n"
         THEN <<cur>> \o SplitFrom(s, i + 2, <<>>)
    ELSE IF IsLineBreak(s[i]) THEN <<cur>> \o SplitFrom(s, i + 1, <<>>)
    ELSE SplitFrom(s, i + 1, Append(cur, s[i]))

splitlines_nonblank(s) == SelectSeq(SplitFrom(s, 1, <<>>), LAMBDA l : l # <<>>)

splitlines(s) == SplitFrom(s, 1, <<>>)

----------------------------------------------------------------------------
(* Clock formatting.  datetime.now() is the wall clock: two calls may read  *)
(* the same tick or different ticks, in either order, so every call draws  *)
(* the tick t it reads; the reads inside one call are taken at one tick.   *)

\* int(datetime.now().timestamp()): whole seconds
timestamp_int(t) == t \div TicksPerSec

\* str(datetime.now().timestamp()): seconds "." fraction
timestamp_str(t) == IntStr(t \div TicksPerSec) \o <<".">> \o IntStr(t % TicksPerSec)

\* datetime.now().strftime('%Y%m%d_%H%M%S'): date "_" time of day, whole seconds
strftime(t) ==
    IntStr((t \div TicksPerSec) \div 86400) \o <<"_">> \o IntStr((t \div TicksPerSec) % 86400)

----------------------------------------------------------------------------
(* _sanitize_filename *)

DOCX == <<".", "d", "o", "c", "x">>

invalid_chars_short == {"<", ">", ":", "\"", "/", "\\", "|", "?"}

invalid_chars == {"<", ">", ":", "\"", "/", "\\", "|", "?", "*"}

fallback_name(t) == <<"d", "o", "c", "u", "m", "e", "n", "t", "_">> \o IntStr(timestamp_int(t))

_sanitize_filename_nofallback(name, preserve_spaces, t) ==
    LET safe0 == SelectSeq(name, LAMBDA c : c \notin invalid_chars)
        safe1 == Strip(safe0)
    IN  IF ~preserve_spaces THEN Replace(safe1, " ", "_") ELSE safe1

_sanitize_filename(name, preserve_spaces, t) ==
    LET safe0 == SelectSeq(name, LAMBDA c : c \notin invalid_chars)
        safe1 == Strip(safe0)
        safe2 == IF ~preserve_spaces THEN Replace(safe1, " ", "_") ELSE safe1
    IN  IF safe2 # <<>> THEN safe2 ELSE fallback_name(t)

ensure_docx(base_name) ==
    IF ~EndsWith(Lower(base_name), DOCX) THEN base_name \o DOCX ELSE base_name

----------------------------------------------------------------------------
(* Documents and BytesIO objects *)

\* python-docx Document(): a heading and the body paragraphs
Document == [heading |-> <<>>, paragraphs |-> <<>>]

add_heading(doc, text) == [doc EXCEPT !.heading = text]

add_paragraph(doc, text) == [doc EXCEPT !.paragraphs = Append(@, text)]

RECURSIVE add_paragraphs(_, _)
add_paragraphs(doc, lines) ==
    IF lines = <<>> THEN doc
    ELSE add_paragraphs(add_paragraph(doc, Head(lines)), Tail(lines))

RECURSIVE Flatten(_)
Flatten(ps) == IF ps = <<>> THEN <<>> ELSE <<"#">> \o Head(ps) \o Flatten(Tail(ps))

\* doc.save(output): the serialised document, heading first, "#" opening each paragraph
doc_save(doc) == doc.heading \o Flatten(doc.paragraphs)

\* io.BytesIO: a buffer and a read/write position
BytesIO == [buf |-> <<>>, pos |-> 0]

bio_write(o, data) ==
    LET end == o.pos + Len(data)
        n   == IF end > Len(o.buf) THEN end ELSE Len(o.buf)
    IN  [buf |-> [i \in 1..n |-> IF i > o.pos /\ i <= end THEN data[i - o.pos]
                                  ELSE IF i <= Len(o.buf) THEN o.buf[i] ELSE "0"],
         pos |-> end]

bio_seek(o, p) == [o EXCEPT !.pos = p]

\* read(): the bytes from the position to the end; the position moves to the end
bio_read_data(o) == SubSeq(o.buf, o.pos + 1, Len(o.buf))

bio_read(o) == [o EXCEPT !.pos = IF o.pos > Len(o.buf) THEN o.pos ELSE Len(o.buf)]

\* output = BytesIO(); doc.save(output); output.seek(0)
saved_output(data) == bio_seek(bio_write(BytesIO, data), 0)

----------------------------------------------------------------------------
(* Templates: TEMPLATES_DIR and docxtpl rendering *)

Lit(c) == [lit |-> TRUE, v |-> c]
Var(n) == [lit |-> FALSE, v |-> n]

T_DOCX == <<"t">> \o DOCX
M_DOCX == <<"m">> \o DOCX

\* the .docx files present in TEMPLATES_DIR, each with its body
TEMPLATES_DIR == (T_DOCX :> <<Lit("H"), Var("n")>>)

tpl_exists(template_name) == template_name \in DOMAIN TEMPLATES_DIR

\* Path(template_name).stem: the name without its last suffix
RECURSIVE LastDot(_, _)
LastDot(s, i) == IF i <= 1 THEN 0 ELSE IF s[i] = "." THEN i ELSE LastDot(s, i - 1)

stem(name) ==
    LET d == LastDot(name, Len(name)) IN IF d = 0 THEN name ELSE SubSeq(name, 1, d - 1)

env_undefined_lenient == "Undefined"

\* Environment(undefined=StrictUndefined, autoescape=False)
env_undefined == "StrictUndefined"

undefined_vars(body, context) ==
    {body[i].v : i \in {j \in DOMAIN body : ~body[j].lit}} \ DOMAIN context

\* tpl.render(context, jinja_env=env) raises jinja2's UndefinedError
render_raises(body, context) ==
    env_undefined = "StrictUndefined" /\ undefined_vars(body, context) # {}

\* the rendered body; a lenient Undefined prints as the empty string
render(body, context) ==
    LET piece(tok) == IF tok.lit THEN <<tok.v>>
                      ELSE IF tok.v \in DOMAIN context THEN <<context[tok.v]>> ELSE <<>>
        RECURSIVE cat(_)
        cat(toks) == IF toks = <<>> THEN <<>> ELSE piece(Head(toks)) \o cat(Tail(toks))
    IN  cat(body)

----------------------------------------------------------------------------
(* The document cache and the last call's outcome                          *)
(*                                                                         *)
(* An entry holds its BytesIO object.  get_document_from_cache returns a   *)
(* reference to that object, not a copy: the reference is named by the key *)
(* of the entry holding the object (ret.ref), and what the caller does     *)
(* through it acts on the object inside the entry.                         *)

NoRef == <<>>        \* None where a BytesIO reference is expected

EmptyCache == [k \in {} |-> [bytes |-> BytesIO, filename |-> <<>>]]

cache_set_only(c, k, e) == [x \in {k} |-> e]

\* _document_cache[doc_key] = {...}
cache_set(c, k, e) == [x \in DOMAIN c \cup {k} |-> IF x = k THEN e ELSE c[x]]

cache_pop_all(c, k) == [x \in {} |-> c[x]]

\* _document_cache.pop(doc_key, None)
cache_pop(c, k) == [x \in DOMAIN c \ {k} |-> c[x]]

\* what a call hands back: the return value, or the exception it raised
Outcome(op) ==
    [op |-> op, error |-> "", doc_key |-> <<>>, filename |-> <<>>, ref |-> NoRef,
     found |-> FALSE, doc |-> Document]

Raised(op, exc) == [Outcome(op) EXCEPT !.error = exc]

\* f"{datetime.now().timestamp()}_{base_name}"
make_doc_key(t, base_name) == timestamp_str(t) \o <<"_">> \o base_name

\* output is stored under doc_key and {"success", "filename", "download_key"} returned
store(op, output, base_name, doc, t) ==
    LET doc_key == make_doc_key(t, base_name)
    IN  /\ cache' = cache_set(cache, doc_key, [bytes |-> output, filename |-> base_name])
        /\ ret' = [Outcome(op) EXCEPT !.doc_key = doc_key, !.filename = base_name,
                                      !.found = TRUE, !.doc = doc]

----------------------------------------------------------------------------
(* generate_docx; t is the tick datetime.now() reads *)

DOCUMENT == <<"D", "o", "c", "u", "m", "e", "n", "t">>

\* title = (title or "Document").strip()
plain_title(title) == Strip(IF title # <<>> THEN title ELSE DOCUMENT)

\* content = (content or "").strip()
plain_content(content) == Strip(content)

plain_base_name(title, filename, t) ==
    ensure_docx(_sanitize_filename(
        IF filename # <<>> THEN filename
        ELSE Lower(plain_title(title)) \o <<"_">> \o strftime(t) \o DOCX,
        FALSE, t))

plain_doc(title, content) ==
    LET doc == add_heading(Document, plain_title(title))
        c   == plain_content(content)
    IN  IF c # <<>> THEN add_paragraphs(doc, splitlines(c)) ELSE doc

generate_docx(title, content, filename, t) ==
    LET doc == plain_doc(title, content)
    IN  /\ store("generate_docx", saved_output(doc_save(doc)),
                 plain_base_name(title, filename, t), doc, t)
        /\ UNCHANGED <<has_docxtpl, arg>>

----------------------------------------------------------------------------
(* generate_docx_from_template *)

SEP == <<" ", "-", " ">>

template_base_name(template_name, filename, t) ==
    LET preserve_spaces == filename # <<>> /\ Contains(filename, SEP)
    IN  ensure_docx(_sanitize_filename(
            IF filename # <<>> THEN filename
            ELSE <<"r", "e", "n", "d", "e", "r", "_">> \o stem(template_name)
                 \o <<"_">> \o strftime(t) \o DOCX,
            preserve_spaces, t))

generate_docx_from_template(template_name, context, filename, t) ==
    /\ UNCHANGED <<has_docxtpl, arg>>
    /\ IF ~has_docxtpl
       THEN /\ ret' = Raised("generate_docx_from_template", "RuntimeError")
            /\ UNCHANGED cache
       ELSE IF ~tpl_exists(template_name)
       THEN /\ ret' = Raised("generate_docx_from_template", "FileNotFoundError")
            /\ UNCHANGED cache
       ELSE IF render_raises(TEMPLATES_DIR[template_name], context)
       THEN /\ ret' = Raised("generate_docx_from_template", "UndefinedError")
            /\ UNCHANGED cache
       ELSE store("generate_docx_from_template",
                  saved_output(render(TEMPLATES_DIR[template_name], context)),
                  template_base_name(template_name, filename, t), Document, t)

----------------------------------------------------------------------------
(* Cache lookups and eviction *)

get_document_from_cache(doc_key) ==
    /\ IF doc_key \in DOMAIN cache
       THEN ret' = [Outcome("get_document_from_cache") EXCEPT
                       !.doc_key = doc_key, !.found = TRUE, !.ref = doc_key]
       ELSE ret' = [Outcome("get_document_from_cache") EXCEPT !.doc_key = doc_key]
    /\ UNCHANGED <<cache, has_docxtpl, arg>>

get_document_filename_from_cache(doc_key) ==
    /\ IF doc_key \in DOMAIN cache
       THEN ret' = [Outcome("get_document_filename_from_cache") EXCEPT
                       !.doc_key = doc_key, !.found = TRUE,
                       !.filename = cache[doc_key].filename]
       ELSE ret' = [Outcome("get_document_filename_from_cache") EXCEPT !.doc_key = doc_key]
    /\ UNCHANGED <<cache, has_docxtpl, arg>>

clear_document_cache(doc_key) ==
    /\ cache' = cache_pop(cache, doc_key)
    /\ ret' = [Outcome("clear_document_cache") EXCEPT !.doc_key = doc_key]
    /\ UNCHANGED <<has_docxtpl, arg>>

----------------------------------------------------------------------------
(* What the caller does with the BytesIO it was just handed.  The caller   *)
(* holds the reference from the get until the next call into the module;   *)
(* a get can be repeated at any time, so no cache state is lost by that.   *)

holds_ref == ret.op = "get_document_from_cache" /\ ret.found /\ ret.ref \in DOMAIN cache

caller_read ==
    /\ holds_ref
    /\ cache' = [cache EXCEPT ![ret.ref].bytes = bio_read(@)]
    /\ UNCHANGED <<has_docxtpl, arg, ret>>

caller_seek(p) ==
    /\ holds_ref
    /\ cache' = [cache EXCEPT ![ret.ref].bytes = bio_seek(@, p)]
    /\ UNCHANGED <<has_docxtpl, arg, ret>>

caller_write(data) ==
    /\ holds_ref
    /\ cache[ret.ref].bytes.pos + Len(data) <= Len(cache[ret.ref].bytes.buf)
    /\ cache' = [cache EXCEPT ![ret.ref].bytes = bio_write(@, data)]
    /\ UNCHANGED <<has_docxtpl, arg, ret>>

----------------------------------------------------------------------------
(* The service: any sequence of calls *)

NoArg ==
    [title |-> <<>>, content |-> <<>>, name |-> <<>>, preserve_spaces |-> FALSE, t |-> 0]

Times == 0..MaxTime
Titles == {<<"T">>, <<"U">>}
Contents == {<<>>}
FileNames == {<<"a">>}
TemplateNames == {T_DOCX, M_DOCX}
Contexts == {[v \in {} |-> "J"], [v \in {"n"} |-> "J"]}
TemplateFileNames == {<<"a">>}
BogusKey == <<"k">>

\* the keys a caller can pass: those in the cache, the one last used, one never minted
KnownKeys == DOMAIN cache \cup {ret.doc_key} \cup {BogusKey}

Init ==
    /\ cache = EmptyCache
    /\ has_docxtpl \in BOOLEAN
    /\ arg = NoArg
    /\ ret = Outcome("init")

GenerateDocx ==
    \E title \in Titles, content \in Contents, f \in FileNames, t \in Times :
        generate_docx(title, content, f, t)

GenerateDocxFromTemplate ==
    \E tn \in TemplateNames, ctx \in Contexts, f \in TemplateFileNames, t \in Times :
        generate_docx_from_template(tn, ctx, f, t)

GetDocument == \E k \in KnownKeys : get_document_from_cache(k)

GetFilename == \E k \in KnownKeys : get_document_filename_from_cache(k)

ClearDocument == \E k \in KnownKeys : clear_document_cache(k)

CallerRead == caller_read

CallerSeek == caller_seek(0)

CallerWrite == caller_write(<<"X">>)

Next ==
    \/ GenerateDocx
    \/ GenerateDocxFromTemplate
    \/ GetDocument
    \/ GetFilename
    \/ ClearDocument
    \/ CallerRead
    \/ CallerSeek
    \/ CallerWrite

Spec == Init /\ [][Next]_vars

----------------------------------------------------------------------------
(* _sanitize_filename on drawn inputs *)

SanAlphabet == {"a", "b", " ", "\t", "_", "<", "*"}

\* ticks in second 0, second 1 and second 12
PureTimes == {0, TicksPerSec, 12 * TicksPerSec}

InitSan ==
    /\ cache = EmptyCache
    /\ has_docxtpl \in BOOLEAN
    /\ arg \in [title : {<<>>}, content : {<<>>}, name : StrUpTo(SanAlphabet, MaxNameLen),
                preserve_spaces : BOOLEAN, t : PureTimes]
    /\ ret = Outcome("init")

SanitizeCall ==
    /\ ret.op = "init"
    /\ ret' = [Outcome("_sanitize_filename") EXCEPT
                  !.filename = _sanitize_filename(arg.name, arg.preserve_spaces, arg.t)]
    /\ UNCHANGED <<cache, has_docxtpl, arg>>

NextSan == SanitizeCall

SpecSan == InitSan /\ [][NextSan]_vars

----------------------------------------------------------------------------
(* generate_docx on drawn inputs *)

TitleAlphabet == {"T", " "}
ContentAlphabet == {"a", " ", "\n", "\r"}

InitPlain ==
    /\ cache = EmptyCache
    /\ has_docxtpl \in BOOLEAN
    /\ arg \in [title : StrUpTo(TitleAlphabet, MaxTitleLen),
                content : StrUpTo(ContentAlphabet, MaxLen),
                name : {<<>>, <<"f">>}, preserve_spaces : {FALSE}, t : {0, TicksPerSec}]
    /\ ret = Outcome("init")

PlainCall ==
    /\ ret.op = "init"
    /\ generate_docx(arg.title, arg.content, arg.name, arg.t)

NextPlain == PlainCall

SpecPlain == InitPlain /\ [][NextPlain]_vars

----------------------------------------------------------------------------
(* Vocabulary of the properties, stated without the operators of the model *)

IllegalSet == {"<", ">", ":", "\"", "/", "\\", "|", "?", "*"}

Blank(c) == c \in {" ", "\t", "\n", "\r"}

\* s without its leading and trailing blanks, by index
Trimmed(s) ==
    LET solid == {i \in DOMAIN s : ~Blank(s[i])}
        first == CHOOSE i \in solid : \A j \in solid : i <= j
        last  == CHOOSE i \in solid : \A j \in solid : i >= j
    IN  IF solid = {} THEN <<>> ELSE SubSeq(s, first, last)

RECURSIVE IsSubseq(_, _)
IsSubseq(a, b) ==
    IF a = <<>> THEN TRUE
    ELSE IF b = <<>> THEN FALSE
    ELSE IF Head(a) = Head(b) THEN IsSubseq(Tail(a), Tail(b))
    ELSE IsSubseq(a, Tail(b))

RECURSIVE Concat(_)
Concat(ss) == IF ss = <<>> THEN <<>> ELSE Head(ss) \o Concat(Tail(ss))

\* line breaks of s, "\r\n" counted once
NumBreaks(s) ==
    Cardinality({i \in DOMAIN s :
        /\ s[i] \in {"\n", "\r"}
        /\ ~(s[i] = "\n" /\ i > 1 /\ s[i - 1] = "\r")})

PutStep == (GenerateDocx \/ GenerateDocxFromTemplate) /\ ret'.error = ""

\* a step is a call into the module exactly when it changes ret; the step of a
\* call is told by the outcome it leaves, the caller's use of a returned object
\* by leaving ret alone
IsCall(op) == ret' # ret /\ ret'.op = op

CallerStep == ret' = ret /\ cache' # cache

Placeholders(tn) ==
    {TEMPLATES_DIR[tn][i].v : i \in {j \in DOMAIN TEMPLATES_DIR[tn] : ~TEMPLATES_DIR[tn][j].lit}}

----------------------------------------------------------------------------
(* C7: _sanitize_filename and the illegal characters *)

Sanitized == ret.op = "_sanitize_filename"

LegalOf(s) == SelectSeq(s, LAMBDA c : c \notin IllegalSet)

----------------------------------------------------------------------------
(* C8: _sanitize_filename never returns the empty string *)

\* C8: for every name and both values of preserve_spaces the call returns, without
\* raising, a non-empty string; when nothing is left of the name after removing the
\* illegal characters and trimming, the result is a fallback name that carries the
\* current timestamp in whole seconds.
C8_NeverEmpty ==
    Sanitized =>
        /\ ret.error = ""
        /\ ret.filename # <<>>
        /\ Trimmed(LegalOf(arg.name)) = <<>> =>
               /\ Len(ret.filename) > Len(IntStr(arg.t \div TicksPerSec))
               /\ EndsWith(ret.filename, IntStr(arg.t \div TicksPerSec))
               /\ \A i \in DOMAIN ret.filename : ret.filename[i] \notin IllegalSet

\* a name made only of illegal characters and whitespace got the fallback name
C8_Witness ==
    /\ Sanitized
    /\ arg.name = <<"<", " ", "*">>
    /\ arg.t = 12 * TicksPerSec
    /\ EndsWith(ret.filename, <<"_", "1", "2">>)

----------------------------------------------------------------------------
(* C5: generate_docx, one paragraph per line *)

Built == ret.op = "generate_docx" /\ ret.error = ""

\* C5 as claimed: for every content the body has one paragraph per line of the
\* content passed in, blank lines included, in order, none dropped.
C5_ParagraphPerLine ==
    Built =>
        /\ Len(ret.doc.paragraphs) =
               IF arg.content = <<>> THEN 0
               ELSE NumBreaks(arg.content)
                    + (IF arg.content[Len(arg.content)] \in {"\n", "\r"} THEN 0 ELSE 1)
        /\ Concat(ret.doc.paragraphs) = SelectSeq(arg.content, LAMBDA c : c \notin {"\n", "\r"})

\* C5 as amended: the body has one paragraph per line of the content after its
\* leading and trailing whitespace (line breaks included) is trimmed: blank lines
\* inside the trimmed content are kept, in order, and a content that is blank
\* after trimming gives no paragraph.
C5_ParagraphPerTrimmedLine ==
    Built =>
        LET body == Trimmed(arg.content)
            ps   == ret.doc.paragraphs
        IN  /\ Len(ps) = IF body = <<>> THEN 0 ELSE 1 + NumBreaks(body)
            /\ \A i \in DOMAIN ps : \A j \in DOMAIN ps[i] : ps[i][j] \notin {"\n", "\r"}
            /\ Concat(ps) = SelectSeq(body, LAMBDA c : c \notin {"\n", "\r"})

\* a content with a blank line between two lines became three paragraphs
C5_Witness ==
    /\ Built
    /\ arg.content = <<"a", "\n", "\n", "a">>
    /\ ret.doc.paragraphs = << <<"a">>, <<>>, <<"a">> >>

----------------------------------------------------------------------------
(* C6: generate_docx, the default title *)

\* C6: the heading is "Document" whenever the title is blank after trimming
\* (empty, None or whitespace only), and the trimmed title otherwise.
C6_TitleDefault ==
    Built =>
        ret.doc.heading = IF Trimmed(arg.title) = <<>> THEN DOCUMENT ELSE Trimmed(arg.title)

----------------------------------------------------------------------------
(* C1: put, get and evict round trip *)

\* the step reads or writes an entry other than k: a build that returns another
\* key (or fails), a lookup of another key, or the caller's use of the object a
\* lookup of another key returned
TouchesOtherKey(k) ==
    \/ /\ IsCall("generate_docx") \/ IsCall("generate_docx_from_template")
          \/ IsCall("get_document_from_cache") \/ IsCall("get_document_filename_from_cache")
       /\ ret'.doc_key # k
    \/ CallerStep /\ ret.ref # k

\* C1: a build stores its bytes, at read position 0, under the key it returns;
\* builds and lookups of other keys leave that entry as it is; a lookup of the
\* key returns the entry's own object; clear_document_cache removes the entry
\* and a lookup of a key that is not in the cache returns None.
C1_PutGetEvict ==
    [][ /\ IsCall("generate_docx") =>
               /\ ret'.doc_key \in DOMAIN cache'
               /\ cache'[ret'.doc_key].bytes =
                      [buf |-> ret'.doc.heading \o Concat([i \in DOMAIN ret'.doc.paragraphs |->
                                                            <<"#">> \o ret'.doc.paragraphs[i]]),
                       pos |-> 0]
        /\ (IsCall("generate_docx_from_template") /\ ret'.error = "") =>
               \A tn \in TemplateNames, ctx \in Contexts, f \in TemplateFileNames, t \in Times :
                   generate_docx_from_template(tn, ctx, f, t) =>
                       /\ ret'.doc_key \in DOMAIN cache'
                       /\ cache'[ret'.doc_key].bytes.pos = 0
                       /\ Len(cache'[ret'.doc_key].bytes.buf) = Len(TEMPLATES_DIR[tn])
                       /\ \A i \in DOMAIN TEMPLATES_DIR[tn] :
                              cache'[ret'.doc_key].bytes.buf[i] =
                                  IF TEMPLATES_DIR[tn][i].lit THEN TEMPLATES_DIR[tn][i].v
                                  ELSE ctx[TEMPLATES_DIR[tn][i].v]
        /\ \A k \in DOMAIN cache :
               TouchesOtherKey(k) => (k \in DOMAIN cache' /\ cache'[k] = cache[k])
        /\ IsCall("get_document_from_cache") =>
               /\ cache' = cache
               /\ IF ret'.doc_key \in DOMAIN cache THEN ret'.found /\ ret'.ref = ret'.doc_key
                  ELSE ~ret'.found /\ ret'.ref = NoRef
        /\ IsCall("clear_document_cache") => ret'.doc_key \notin DOMAIN cache'
      ]_vars

\* a stored key was looked up while another entry was in the cache, and its
\* object still holds the stored bytes at position 0
C1_Witness ==
    /\ ret.op = "get_document_from_cache"
    /\ ret.found
    /\ Cardinality(DOMAIN cache) = 2
    /\ ret.ref \in DOMAIN cache
    /\ cache[ret.ref].bytes = [buf |-> <<"T">>, pos |-> 0]

----------------------------------------------------------------------------
(* C2: fresh keys *)

\* C2: no build returns a key that is already in the cache, whatever timestamps
\* the calls observe, so no build overwrites another entry.
C2_FreshKey == [][PutStep => ret'.doc_key \notin DOMAIN cache]_vars

----------------------------------------------------------------------------
(* C3: read-only retrieval *)

\* C3: nothing the caller does with the object get_document_from_cache returned
\* changes any entry of the cache, neither its bytes nor its read position.
C3_ReadOnlyRetrieval == [][(CallerRead \/ CallerSeek \/ CallerWrite) => cache' = cache]_vars

----------------------------------------------------------------------------
(* C4: eviction *)

\* C4: clear_document_cache raises nothing; on a key that is not in the cache it
\* leaves the cache unchanged; on a present key it removes that entry and leaves
\* every other entry unchanged.
C4_EvictIdempotent ==
    [][ IsCall("clear_document_cache") =>
            /\ ret'.error = ""
            /\ ret'.doc_key \notin DOMAIN cache => cache' = cache
            /\ DOMAIN cache' = DOMAIN cache \ {ret'.doc_key}
            /\ \A j \in DOMAIN cache' : cache'[j] = cache[j]
      ]_vars

\* a key that is not in the cache was evicted while another entry was present
C4_Witness ==
    /\ ret.op = "clear_document_cache"
    /\ ret.error = ""
    /\ ret.doc_key \notin DOMAIN cache
    /\ DOMAIN cache # {}

----------------------------------------------------------------------------
(* C9: the state machine of an entry *)

\* C9: a key becomes Present only by a build that returns it and Absent only by
\* clear_document_cache of it; while it stays Present its content and filename do
\* not change; the two lookups change no entry.
C9_EntryStateMachine ==
    [][ /\ \A k \in DOMAIN cache' \ DOMAIN cache : PutStep /\ ret'.doc_key = k
        /\ \A k \in DOMAIN cache \ DOMAIN cache' : clear_document_cache(k)
        /\ \A k \in DOMAIN cache \cap DOMAIN cache' :
               /\ cache'[k].bytes.buf = cache[k].bytes.buf
               /\ cache'[k].filename = cache[k].filename
        /\ (GetDocument \/ GetFilename) => cache' = cache
      ]_vars

----------------------------------------------------------------------------
(* C10: a failed generate_docx_from_template *)

\* C10: without the templating engine the call fails with RuntimeError whatever
\* the template; with it, a missing template fails with FileNotFoundError; with
\* both, bindings that miss a placeholder of the template fail with
\* UndefinedError; and every failed call leaves the cache as it was and returns
\* no key.
C10_FailureLeavesCache ==
    [][ IsCall("generate_docx_from_template") =>
            LET Expected(tn, ctx) ==
                    IF ~has_docxtpl THEN "RuntimeError"
                    ELSE IF tn \notin DOMAIN TEMPLATES_DIR THEN "FileNotFoundError"
                    ELSE IF ~(Placeholders(tn) \subseteq DOMAIN ctx) THEN "UndefinedError"
                    ELSE ""
            IN  /\ ret'.error # "" => (cache' = cache /\ ret'.doc_key = <<>>)
                /\ \A tn \in TemplateNames, ctx \in Contexts :
                       ret'.error # Expected(tn, ctx) =>
                           ~\E f \in TemplateFileNames, t \in Times :
                                 generate_docx_from_template(tn, ctx, f, t)
      ]_vars

\* a render with a missing placeholder failed while the cache held an entry
C10_Witness ==
    /\ ret.op = "generate_docx_from_template"
    /\ ret.error = "UndefinedError"
    /\ DOMAIN cache # {}

====
